---- MODULE Spec2Model ----
(***************************************************************************)
(* Model of plc-diff: the visitor pipeline driver (process_file), the      *)
(* collection-pass visitors (IoNames, NameTracker, GrafcetTracer) and the  *)
(* transform-pass visitors (SkipTag, DiffHeader, NormalizeInstructionLine, *)
(* GuidVisitor, EventWriter) of plc-textconv.                              *)
(*                                                                         *)
(* Texts, tag names and attribute values are strings; an event is a record *)
(* [k, name, txt, attrs].  A visitor is an operator from its state, the    *)
(* event and the CurrentTag to [st, res], res being Continue(event),       *)
(* NextNode, an error (the ? operator) or a panic (assert!/expect/index).  *)
(***************************************************************************)
EXTENDS Integers, Sequences, FiniteSets, TLC

VARIABLES
    doc,          \* the events of the input file, without the final Eof
    phase,        \* "collect" | "transform" | "done" | "failed" | "diverged"
    pos,          \* number of events read from the file in this pass
    pc,           \* "read" | "visit" | "post": position in process_file's loop
    vi,           \* index of the visitor to call next
    ev,           \* process_file's ev
    orig,         \* process_file's orig
    current_tag,  \* process_file's current_tag
    ionames,      \* IoNames
    trk,          \* NameTracker
    grc,          \* GrafcetTracer
    skip,         \* SkipTag
    dh,           \* DiffHeader (its own fields; trk and grc are borrowed)
    nil,          \* NormalizeInstructionLine (its own fields; names borrowed)
    gm,           \* GuidVisitor's GuidMap
    out,          \* the events EventWriter has written
    calls,        \* the visit calls made for the current event of the pass,
                  \* in order
    run,          \* the invocation of plc-textconv on the file: 1 or 2
    first_out     \* the events the first invocation has written

vars == <<doc, phase, pos, pc, vi, ev, orig, current_tag, ionames, trk, grc,
          skip, dh, nil, gm, out, calls, run, first_out>>

-----------------------------------------------------------------------------
(* Events (quick_xml::events::Event)                                       *)

Start(n) == [k |-> "Start", name |-> n, txt |-> "", attrs |-> <<>>]
End(n) == [k |-> "End", name |-> n, txt |-> "", attrs |-> <<>>]
Text(t) == [k |-> "Text", name |-> "", txt |-> t, attrs |-> <<>>]
Empty(n) == [k |-> "Empty", name |-> n, txt |-> "", attrs |-> <<>>]
Eof == [k |-> "Eof", name |-> "", txt |-> "", attrs |-> <<>>]

Elem(n, body) == <<Start(n)>> \o body \o <<End(n)>>
Leaf(n, t) == <<Start(n), Text(t), End(n)>>

RECURSIVE Concat(_)
Concat(ss) == IF ss = <<>> THEN <<>> ELSE Head(ss) \o Concat(Tail(ss))

(* CurrentTag::from(&[u8]) *)
ClassifiedTags ==
    {"Address", "Id", "From", "To", "GrafcetNodeStep", "GrafcetOrFork",
     "GrafcetOrJunction", "GrafcetTransition", "InstructionLine",
     "InstructionLineEntity", "LadderElements", "MainComment", "Name",
     "RungEntity", "Symbol"}

Classify(n) == IF n \in ClassifiedTags THEN n ELSE "Other"

(* CurrentTag::default() *)
DefaultTag == "None"

-----------------------------------------------------------------------------
(* Maps (HashMap) as functions                                             *)

EmptyMap == [x \in {} |-> ""]
MapInsert(m, key, v) ==
    [x \in DOMAIN m \cup {key} |-> IF x = key THEN v ELSE m[x]]

(* VisitProcessing and the error outcomes of VisitResult *)
Continue(e) == [kind |-> "Continue", ev |-> e]
NextNode == [kind |-> "NextNode", ev |-> Eof]
Err == [kind |-> "Err", ev |-> Eof]
Panic == [kind |-> "Panic", ev |-> Eof]

(* capacity of Guid's ArrayVec<u8, 36> *)
GuidCap == 36
(* capacity of IoNames' ArrayVec<u8, 30> *)
IoNameCap == 30

-----------------------------------------------------------------------------
(* IoNames                                                                 *)

NoAddress == [depth |-> 0, addr |-> ""]
IoNamesNew == [names |-> EmptyMap, new_address |-> NoAddress, depth |-> 0]

IoNamesVisit(s, event, current) ==
    CASE event.k = "Start" ->
           [st |-> [s EXCEPT !.depth = s.depth + 1], res |-> Continue(event)]
      [] event.k = "End" ->
           LET d == s.depth - 1
           IN [st |-> [s EXCEPT !.depth = d,
                                !.new_address = IF d + 2 < s.new_address.depth
                                                THEN NoAddress
                                                ELSE s.new_address],
               res |-> Continue(event)]
      [] event.k = "Text" /\ current = "Address" ->
           IF Len(event.txt) > IoNameCap
           THEN [st |-> s, res |-> Err]
           ELSE [st |-> [s EXCEPT !.new_address =
                                     [depth |-> s.depth, addr |-> event.txt]],
                 res |-> Continue(event)]
      [] event.k = "Text" /\ current = "Symbol" ->
           IF Len(event.txt) > IoNameCap
           THEN [st |-> [s EXCEPT !.new_address = NoAddress], res |-> Err]
           ELSE [st |-> [s EXCEPT !.new_address = NoAddress,
                                  !.names = MapInsert(s.names,
                                                      s.new_address.addr,
                                                      event.txt)],
                 res |-> Continue(event)]
      [] OTHER -> [st |-> s, res |-> Continue(event)]

(* IoNames::get_symbol: Some(symbol) as <<symbol>>, None as <<>> *)
GetSymbol(names, address) ==
    IF address \in DOMAIN names THEN <<names[address]>> ELSE <<>>

-----------------------------------------------------------------------------
(* NameTracker                                                             *)

NameTrackerNew ==
    [rungs |-> <<>>, ids |-> EmptyMap, names |-> <<>>, new_comment |-> "",
     new_id |-> "", depth |-> 0]

Separator == " > "

RECURSIVE JoinWith(_, _)
JoinWith(ss, sep) ==
    IF ss = <<>> THEN ""
    ELSE IF Len(ss) = 1 THEN ss[1]
    ELSE ss[1] \o sep \o JoinWith(Tail(ss), sep)

RECURSIVE TakeWhileDepth(_, _)
TakeWhileDepth(ns, limit) ==
    IF ns = <<>> \/ ns[1].depth > limit THEN <<>>
    ELSE <<ns[1]>> \o TakeWhileDepth(Tail(ns), limit)

(* MkRungName without the .skip(1) *)
MkRungNameNoSkip(s) ==
    LET kept == TakeWhileDepth(s.names, s.depth + 2)
    IN JoinWith([i \in 1..Len(kept) |-> kept[i].name], Separator)

(* NameTracker::mk_rung_name *)
MkRungName(s) ==
    LET rest == IF s.names = <<>> THEN <<>> ELSE Tail(s.names)
        kept == TakeWhileDepth(rest, s.depth + 2)
    IN JoinWith([i \in 1..Len(kept) |-> kept[i].name], Separator)

(* LatestName with first() in place of last() *)
LatestNameFirst(s) == IF s.names = <<>> THEN "" ELSE s.names[1].name

(* NameTracker::latest_name *)
LatestName(s) ==
    IF s.names = <<>> THEN "" ELSE s.names[Len(s.names)].name

(* RemoveOldNames popping on depth > self.depth only *)
RECURSIVE RemoveOldNamesGt(_, _)
RemoveOldNamesGt(ns, depth) ==
    IF ns # <<>> /\ ns[Len(ns)].depth > depth
    THEN RemoveOldNamesGt(SubSeq(ns, 1, Len(ns) - 1), depth)
    ELSE ns

(* NameTracker::remove_old_names: the name stack after the loop *)
RECURSIVE RemoveOldNames(_, _)
RemoveOldNames(ns, depth) ==
    IF ns # <<>> /\ ns[Len(ns)].depth >= depth
    THEN RemoveOldNames(SubSeq(ns, 1, Len(ns) - 1), depth)
    ELSE ns

(* the .iter().find(|&&(depth, _)| depth > self.depth) of the step close *)
RECURSIVE FindDeeper(_, _)
FindDeeper(ns, depth) ==
    IF ns = <<>> THEN ""
    ELSE IF ns[1].depth > depth THEN ns[1].name
    ELSE FindDeeper(Tail(ns), depth)

NameTrackerEnd(s, current) ==
    CASE current = "RungEntity" ->
           [s EXCEPT !.rungs = Append(s.rungs,
                                      [name |-> MkRungName(s),
                                       main_comment |-> s.new_comment]),
                     !.new_comment = ""]
      [] current = "GrafcetNodeStep" ->
           [s EXCEPT !.ids = MapInsert(s.ids, s.new_id,
                                       FindDeeper(s.names, s.depth))]
      [] current = "GrafcetTransition" ->
           [s EXCEPT !.ids = MapInsert(s.ids, s.new_id, LatestName(s)),
                     !.names = RemoveOldNames(s.names, s.depth)]
      [] OTHER -> s

NameTrackerVisit(s, event, current) ==
    CASE event.k = "Text" /\ current = "Id" ->
           IF Len(event.txt) > GuidCap
           THEN [st |-> s, res |-> Err]
           ELSE [st |-> [s EXCEPT !.new_id = event.txt],
                 res |-> Continue(event)]
      [] event.k = "Text" /\ current = "MainComment" ->
           [st |-> [s EXCEPT !.new_comment = event.txt],
            res |-> Continue(event)]
      [] event.k = "Text" /\ current = "Name" ->
           [st |-> [s EXCEPT !.names =
                       Append(RemoveOldNames(s.names, s.depth),
                              [depth |-> s.depth, name |-> event.txt])],
            res |-> Continue(event)]
      [] event.k = "Start" ->
           [st |-> [s EXCEPT !.depth = s.depth + 1], res |-> Continue(event)]
      [] event.k = "End" ->
           LET t == NameTrackerEnd(s, current)
           IN [st |-> [t EXCEPT !.depth = s.depth - 1],
               res |-> Continue(event)]
      [] OTHER -> [st |-> s, res |-> Continue(event)]

-----------------------------------------------------------------------------
(* GrafcetNode, GrafcetCounter, GrafcetTracer                              *)

NodeTags ==
    {"GrafcetNodeStep", "GrafcetTransition", "GrafcetOrFork",
     "GrafcetOrJunction"}

(* GrafcetCounter::process_current_tag: the returned bool *)
IsNodeTag(current) == current \in NodeTags

(* CountTag that counts every element, node-classified or not *)
CountTagAnyTag(cnt, current) == cnt + 1

(* GrafcetCounter::process_current_tag: the counter afterwards *)
CountTag(cnt, current) == IF IsNodeTag(current) THEN cnt + 1 ELSE cnt

NoNode == [id |-> "", from |-> <<>>, to |-> <<>>]
NoNewNode == [depth |-> 0, node |-> NoNode]

GrafcetTracerNew ==
    [nodes |-> [x \in {} |-> NoNode], sequence |-> <<>>, counter |-> 0,
     new_node |-> NoNewNode, current_depth |-> 0]

(* FanOk that only asks for a side that is not empty *)
FanOkNotEmpty(node) == Len(node.from) >= 1 \/ Len(node.to) >= 1

(* the assert! of the End arm *)
FanOk(node) == Len(node.from) = 1 \/ Len(node.to) = 1

(* the bail! condition of the End arm *)
DepthBail(s) == s.current_depth + 1 < s.new_node.depth

GrafcetTracerEnd(s, event, current) ==
    IF DepthBail(s) THEN [st |-> s, res |-> Err]
    ELSE IF IsNodeTag(current)
    THEN LET c == [s EXCEPT !.counter = CountTag(s.counter, current)]
         IN IF ~FanOk(s.new_node.node)
            THEN [st |-> c, res |-> Panic]
            ELSE LET node == s.new_node.node
                 IN [st |-> [c EXCEPT
                               !.new_node = NoNewNode,
                               !.sequence = Append(s.sequence, node.id),
                               !.nodes = MapInsert(s.nodes, node.id, node),
                               !.current_depth = s.current_depth - 1],
                     res |-> Continue(event)]
    ELSE [st |-> [s EXCEPT !.current_depth = s.current_depth - 1],
          res |-> Continue(event)]

GrafcetTracerVisit(s, event, current) ==
    CASE event.k = "Text" /\ current = "Id" ->
           LET t == [s EXCEPT !.new_node.depth = s.current_depth]
           IN IF Len(event.txt) > GuidCap
              THEN [st |-> t, res |-> Err]
              ELSE [st |-> [t EXCEPT !.new_node.node.id = event.txt],
                    res |-> Continue(event)]
      [] event.k = "Text" /\ current = "To" ->
           IF Len(event.txt) > GuidCap
           THEN [st |-> s, res |-> Err]
           ELSE [st |-> [s EXCEPT !.new_node.node.to =
                                     Append(s.new_node.node.to, event.txt)],
                 res |-> Continue(event)]
      [] event.k = "Text" /\ current = "From" ->
           IF Len(event.txt) > GuidCap
           THEN [st |-> s, res |-> Err]
           ELSE [st |-> [s EXCEPT !.new_node.node.from =
                                     Append(s.new_node.node.from, event.txt)],
                 res |-> Continue(event)]
      [] event.k = "Start" ->
           [st |-> [s EXCEPT !.current_depth = s.current_depth + 1],
            res |-> Continue(event)]
      [] event.k = "End" -> GrafcetTracerEnd(s, event, current)
      [] OTHER -> [st |-> s, res |-> Continue(event)]

(* UniqTriple with from and to taken for each other *)
UniqTripleSwapped(node) ==
    IF Len(node.from) = 1 /\ Len(node.to) = 1
    THEN <<node.to[1], node.id, node.from[1]>>
    ELSE <<>>

(* GrafcetNode::uniq_triple: Some as <<from, id, to>>, None as <<>> *)
UniqTriple(node) ==
    IF Len(node.from) = 1 /\ Len(node.to) = 1
    THEN <<node.from[1], node.id, node.to[1]>>
    ELSE <<>>

-----------------------------------------------------------------------------
(* GrafcetTracer's queries                                                 *)

(* get_unique_link that takes to[0] whenever there is one, whatever the    *)
(* number of To entries                                                    *)
GetUniqueLinkAnyTo(g, id) ==
    IF id \notin DOMAIN g.nodes THEN <<>>
    ELSE LET curr == g.nodes[id]
         IN IF ~(Len(curr.to) = 1 \/ Len(curr.from) = 1) THEN <<>>
            ELSE IF Len(curr.to) >= 1 THEN <<curr.to[1]>>
            ELSE <<curr.from[1]>>

(* GrafcetTracer::get_unique_link: Some link as <<link>>, a panic (missing *)
(* key or failed assert!) as <<>>                                          *)
GetUniqueLink(g, id) ==
    IF id \notin DOMAIN g.nodes THEN <<>>
    ELSE LET curr == g.nodes[id]
         IN IF ~(Len(curr.to) = 1 \/ Len(curr.from) = 1) THEN <<>>
            ELSE IF Len(curr.to) = 1 THEN <<curr.to[1]>>
            ELSE <<curr.from[1]>>

(* GrafcetTracer::get_current_node: Some node as <<node>>, an index panic  *)
(* as <<>>                                                                 *)
GetCurrentNode(g, cnt) ==
    IF cnt < 1 \/ cnt > Len(g.sequence) THEN <<>>
    ELSE IF g.sequence[cnt] \notin DOMAIN g.nodes THEN <<>>
    ELSE <<g.nodes[g.sequence[cnt]]>>

-----------------------------------------------------------------------------
(* SkipTag                                                                 *)

SkipTagNew(tag) == [skipping |-> FALSE, tag |-> tag]

SkipTagVisit(s, event, current) ==
    IF current # s.tag /\ s.skipping
    THEN [st |-> s, res |-> NextNode]
    ELSE IF current = s.tag
    THEN [st |-> [s EXCEPT !.skipping = CASE event.k = "Start" -> TRUE
                                          [] event.k = "End" -> FALSE
                                          [] OTHER -> s.skipping],
          res |-> Continue(event)]
    ELSE [st |-> s, res |-> Continue(event)]

-----------------------------------------------------------------------------
(* DiffHeader                                                              *)

DiffHeaderNew == [grc_cnt |-> 0, current_rung |-> 0]

(* DiffHeader::add_ctx_attr *)
AddCtxAttr(event, hdr) ==
    [event EXCEPT !.attrs = Append(event.attrs, <<"ctx", hdr>>)]

(* DiffHeader::id: the name as [kind |-> "Ok", name], a panic inside       *)
(* get_unique_link as "Panic", a recursion that comes back to an id it     *)
(* already went through (it never returns) as "Diverge"                    *)
RECURSIVE ResolveId(_, _, _, _)
ResolveId(t, g, id, seen) ==
    IF id \in DOMAIN t.ids THEN [kind |-> "Ok", name |-> t.ids[id]]
    ELSE LET x == GetUniqueLink(g, id)
         IN IF x = <<>> THEN [kind |-> "Panic", name |-> ""]
            ELSE IF x[1] \in seen \cup {id}
            THEN [kind |-> "Diverge", name |-> ""]
            ELSE ResolveId(t, g, x[1], seen \cup {id})

(* DiffHeader::trans_ctx *)
TransCtx(t, g, cnt) ==
    LET node == GetCurrentNode(g, cnt)
    IN IF node = <<>> THEN [kind |-> "Panic", name |-> ""]
       ELSE LET tr == UniqTriple(node[1])
            IN IF tr = <<>> THEN [kind |-> "Panic", name |-> ""]
               ELSE LET f == ResolveId(t, g, tr[1], {})
                        i == ResolveId(t, g, tr[2], {})
                        o == ResolveId(t, g, tr[3], {})
                    IN IF f.kind # "Ok" THEN f
                       ELSE IF i.kind # "Ok" THEN i
                       ELSE IF o.kind # "Ok" THEN o
                       ELSE [kind |-> "Ok",
                             name |-> f.name \o "->[" \o i.name
                                             \o "]->" \o o.name]

DiffHeaderVisit(s, t, g, event, current) ==
    IF event.k # "Start" THEN [st |-> s, res |-> Continue(event)]
    ELSE LET c == [s EXCEPT !.grc_cnt = CountTag(s.grc_cnt, current)]
         IN CASE current = "RungEntity" ->
                   IF s.current_rung >= Len(t.rungs)
                   THEN [st |-> c, res |-> Panic]
                   ELSE [st |-> [c EXCEPT !.current_rung = s.current_rung + 1],
                         res |-> Continue(AddCtxAttr(event,
                                     t.rungs[s.current_rung + 1].name))]
              [] current = "GrafcetTransition" ->
                   LET x == TransCtx(t, g, c.grc_cnt)
                   IN IF x.kind = "Ok"
                      THEN [st |-> c,
                            res |-> Continue(AddCtxAttr(event, x.name))]
                      ELSE [st |-> c, res |-> [kind |-> x.kind, ev |-> Eof]]
              [] OTHER -> [st |-> c, res |-> Continue(event)]

-----------------------------------------------------------------------------
(* NormalizeInstructionLine                                                *)

NormalizeNew == [in_entity |-> FALSE, text |-> ""]

(* u8::is_ascii_whitespace *)
IsAsciiWhitespace(c) == c \in {" ", "\t", "\n", "\f", "\r"}

(* txt.split(|c| c.is_ascii_whitespace()): the pieces, empty ones too *)
RECURSIVE SplitWs(_, _)
SplitWs(txt, cur) ==
    IF txt = "" THEN <<cur>>
    ELSE IF IsAsciiWhitespace(Head(txt))
    THEN <<cur>> \o SplitWs(Tail(txt), "")
    ELSE SplitWs(Tail(txt), cur \o Head(txt))

(* the 13 of 13usize.saturating_sub(new.len()) *)
SymbolColumn == 13

SaturatingSub(a, b) == IF a > b THEN a - b ELSE 0

(* Vec::resize(n, b' ') for n >= len *)
RECURSIVE ResizeSp(_, _)
ResizeSp(s, n) == IF Len(s) >= n THEN s ELSE ResizeSp(s \o " ", n)

(* NormalizeWord with one space before the bracket, whatever the column *)
NormalizeWordOneSpace(new, word, names) ==
    IF word = "" THEN new
    ELSE LET sym == GetSymbol(names, word)
         IN new \o word
            \o (IF sym # <<>> THEN " [" \o sym[1] \o "]" ELSE "") \o " "

(* one iteration of normalize_text's loop *)
NormalizeWord(new, word, names) ==
    IF word = "" THEN new
    ELSE LET n1 == new \o word
             sym == GetSymbol(names, word)
             n2 == IF sym # <<>>
                   THEN ResizeSp(n1, Len(n1) + 1
                                     + SaturatingSub(SymbolColumn, Len(n1)))
                        \o "[" \o sym[1] \o "]"
                   ELSE n1
         IN n2 \o " "

RECURSIVE NormalizeLoop(_, _, _)
NormalizeLoop(new, words, names) ==
    IF words = <<>> THEN new
    ELSE NormalizeLoop(NormalizeWord(new, Head(words), names),
                       Tail(words), names)

(* Pop that pops nothing *)
PopNothing(s) == s

(* Vec::pop, the popped byte dropped *)
Pop(s) == IF s = "" THEN "" ELSE SubSeq(s, 1, Len(s) - 1)

(* NormalizeInstructionLine::normalize_text *)
NormalizeText(names, txt) == Pop(NormalizeLoop("", SplitWs(txt, ""), names))

NormalizeVisit(s, names, event, current) ==
    CASE event.k = "Start" /\ current = "InstructionLineEntity" ->
           [st |-> [s EXCEPT !.in_entity = TRUE], res |-> NextNode]
      [] ~(event.k = "Start" /\ current = "InstructionLineEntity")
         /\ ~s.in_entity ->
           [st |-> s, res |-> Continue(event)]
      [] s.in_entity /\ event.k = "End"
         /\ current = "InstructionLineEntity" ->
           [st |-> [s EXCEPT !.in_entity = FALSE, !.text = ""],
            res |-> Continue(Text(s.text))]
      [] s.in_entity /\ event.k = "Text" ->
           LET new == NormalizeText(names, event.txt)
               sep == IF s.text # "" /\ new # "" THEN "\t" ELSE ""
           IN [st |-> [s EXCEPT !.text = s.text \o sep \o new],
               res |-> NextNode]
      [] OTHER -> [st |-> s, res |-> NextNode]

-----------------------------------------------------------------------------
(* GuidMap, GuidVisitor                                                    *)

GuidMapNew == [map |-> [x \in {} |-> 0], next |-> 0]

(* GetOrInsert numbering from 0: the id taken before next is incremented *)
GetOrInsertFromZero(m, txt) ==
    IF txt \in DOMAIN m.map
    THEN [st |-> m, ok |-> TRUE, id |-> m.map[txt]]
    ELSE IF Len(txt) > GuidCap
    THEN [st |-> m, ok |-> FALSE, id |-> 0]
    ELSE [st |-> [map |-> MapInsert(m.map, txt, m.next), next |-> m.next + 1],
          ok |-> TRUE, id |-> m.next]

(* GuidMap::get_or_insert: [st, ok, id]; ok = FALSE is the Err of try_into *)
GetOrInsert(m, txt) ==
    IF txt \in DOMAIN m.map
    THEN [st |-> m, ok |-> TRUE, id |-> m.map[txt]]
    ELSE LET n == m.next + 1
         IN IF Len(txt) > GuidCap
            THEN [st |-> [m EXCEPT !.next = n], ok |-> FALSE, id |-> 0]
            ELSE [st |-> [map |-> MapInsert(m.map, txt, n), next |-> n],
                  ok |-> TRUE, id |-> n]

(* format!("{}", n) of a u32 *)
RECURSIVE Decimal(_)
Decimal(n) ==
    IF n < 10 THEN SubSeq("0123456789", n + 1, n + 1)
    ELSE Decimal(n \div 10) \o SubSeq("0123456789", (n % 10) + 1, (n % 10) + 1)

(* format!("=={}==", new) *)
GuidText(n) == "==" \o Decimal(n) \o "=="

GuidVisit(m, event, current) ==
    IF event.k = "Text" /\ current \in {"From", "To", "Id"}
    THEN LET r == GetOrInsert(m, event.txt)
         IN IF r.ok
            THEN [st |-> r.st, res |-> Continue(Text(GuidText(r.id)))]
            ELSE [st |-> r.st, res |-> Err]
    ELSE [st |-> m, res |-> Continue(event)]

-----------------------------------------------------------------------------
(* EventWriter: Writer::write_event writes nothing for Eof                 *)

EventWriterVisit(w, event, current) ==
    [st |-> IF event.k = "Eof" THEN w ELSE Append(w, event),
     res |-> Continue(event)]

-----------------------------------------------------------------------------
(* output_visitor: the two pipelines                                       *)

CollectVisitors == <<"IoNames", "NameTracker", "GrafcetTracer">>

TransformVisitors ==
    <<"SkipTag", "DiffHeader", "NormalizeInstructionLine", "GuidVisitor",
      "EventWriter">>

(* the tag SkipTag::new is given *)
SkippedTag == "LadderElements"

Pipeline(ph) ==
    IF ph = "collect" THEN CollectVisitors
    ELSE IF ph = "transform" THEN TransformVisitors
    ELSE <<>>

-----------------------------------------------------------------------------
(* process_file                                                            *)

(* the reader's stack of open elements after the event e *)
OpenAfter(open, e) ==
    CASE e.k = "Start" -> Append(open, e.name)
      [] e.k = "End" -> SubSeq(open, 1, Len(open) - 1)
      [] OTHER -> open

(* the names of the elements open after the first p events of d *)
RECURSIVE OpenAt(_, _)
OpenAt(d, p) == IF p = 0 THEN <<>> ELSE OpenAfter(OpenAt(d, p - 1), d[p])

(* reader.read_event: the next event of the file, Eof at its end *)
ReadEventAt(d, p) == IF p <= Len(d) THEN d[p] ELSE Eof

(* reader.read_event returns an error (check_end_names): event p of d is a *)
(* close tag that does not close the innermost open element                *)
ReaderError(d, p) ==
    /\ p <= Len(d) /\ d[p].k = "End"
    /\ LET open == OpenAt(d, p - 1)
       IN open = <<>> \/ open[Len(open)] # d[p].name

(* TagAfterRead with every event, not only Start and End, setting the tag *)
TagAfterReadAnyEvent(e, current) == Classify(e.name)

(* the match &ev that sets current_tag *)
TagAfterRead(e, current) ==
    IF e.k \in {"Start", "End"} THEN Classify(e.name) ELSE current

(* LoopStep with `continue` in place of `break` on NextNode *)
LoopStepNoBreak(res, e, i, n) ==
    CASE res.kind \in {"Continue", "NextNode"} ->
           [pc |-> IF i = n THEN "post" ELSE "visit", vi |-> i + 1,
            ev |-> IF res.kind = "Continue" THEN res.ev ELSE e,
            phase |-> phase]
      [] res.kind = "Diverge" ->
           [pc |-> "visit", vi |-> i, ev |-> e, phase |-> "diverged"]
      [] OTHER ->
           [pc |-> "visit", vi |-> i, ev |-> e, phase |-> "failed"]

(* LoopStep without the `?`: an error or a panic is taken for Continue *)
LoopStepErrIgnored(res, e, i, n) ==
    CASE res.kind = "NextNode" ->
           [pc |-> "post", vi |-> i, ev |-> e, phase |-> phase]
      [] res.kind = "Diverge" ->
           [pc |-> "visit", vi |-> i, ev |-> e, phase |-> "diverged"]
      [] OTHER ->
           [pc |-> IF i = n THEN "post" ELSE "visit", vi |-> i + 1,
            ev |-> IF res.kind = "Continue" THEN res.ev ELSE e,
            phase |-> phase]

(* one turn of `for visitor in visitors`: what the loop does with the      *)
(* result res of visitor i of n                                            *)
LoopStep(res, e, i, n) ==
    CASE res.kind = "Continue" ->
           [pc |-> IF i = n THEN "post" ELSE "visit", vi |-> i + 1,
            ev |-> res.ev, phase |-> phase]
      [] res.kind = "NextNode" ->
           [pc |-> "post", vi |-> i, ev |-> e, phase |-> phase]
      [] res.kind = "Diverge" ->
           [pc |-> "visit", vi |-> i, ev |-> e, phase |-> "diverged"]
      [] OTHER ->
           [pc |-> "visit", vi |-> i, ev |-> e, phase |-> "failed"]

(* TagAfterVisit without the reset *)
TagAfterVisitKept(o, current) == current

(* the tag after the visitors have run: reset on a raw End *)
TagAfterVisit(o, current) == IF o.k = "End" THEN "None" ELSE current

Running == phase \in {"collect", "transform"}

Turn(who) == Running /\ pc = "visit" /\ vi <= Len(Pipeline(phase))
             /\ Pipeline(phase)[vi] = who

Advance(who, res) ==
    LET n == LoopStep(res, ev, vi, Len(Pipeline(phase)))
    IN /\ pc' = n.pc
       /\ vi' = n.vi
       /\ ev' = n.ev
       /\ phase' = n.phase
       /\ calls' = Append(calls, [v |-> who, i |-> vi, ev |-> ev,
                                  tag |-> current_tag, res |-> res])
       /\ UNCHANGED <<doc, pos, orig, current_tag, run, first_out>>

ReadEvent ==
    /\ Running /\ pc = "read"
    /\ IF ReaderError(doc, pos + 1)
       THEN /\ phase' = "failed"
            /\ UNCHANGED <<pos, pc, vi, ev, orig, current_tag>>
       ELSE /\ LET e == ReadEventAt(doc, pos + 1)
               IN /\ ev' = e
                  /\ orig' = e
                  /\ current_tag' = TagAfterRead(e, current_tag)
            /\ pos' = pos + 1
            /\ pc' = "visit"
            /\ vi' = 1
            /\ phase' = phase
    /\ calls' = <<>>
    /\ UNCHANGED <<doc, ionames, trk, grc, skip, dh, nil, gm, out, run,
                   first_out>>

VisitIoNames ==
    /\ Turn("IoNames")
    /\ LET r == IoNamesVisit(ionames, ev, current_tag)
       IN ionames' = r.st /\ Advance("IoNames", r.res)
    /\ UNCHANGED <<trk, grc, skip, dh, nil, gm, out>>

VisitNameTracker ==
    /\ Turn("NameTracker")
    /\ LET r == NameTrackerVisit(trk, ev, current_tag)
       IN trk' = r.st /\ Advance("NameTracker", r.res)
    /\ UNCHANGED <<ionames, grc, skip, dh, nil, gm, out>>

VisitGrafcetTracer ==
    /\ Turn("GrafcetTracer")
    /\ LET r == GrafcetTracerVisit(grc, ev, current_tag)
       IN grc' = r.st /\ Advance("GrafcetTracer", r.res)
    /\ UNCHANGED <<ionames, trk, skip, dh, nil, gm, out>>

VisitSkipTag ==
    /\ Turn("SkipTag")
    /\ LET r == SkipTagVisit(skip, ev, current_tag)
       IN skip' = r.st /\ Advance("SkipTag", r.res)
    /\ UNCHANGED <<ionames, trk, grc, dh, nil, gm, out>>

VisitDiffHeader ==
    /\ Turn("DiffHeader")
    /\ LET r == DiffHeaderVisit(dh, trk, grc, ev, current_tag)
       IN dh' = r.st /\ Advance("DiffHeader", r.res)
    /\ UNCHANGED <<ionames, trk, grc, skip, nil, gm, out>>

VisitNormalize ==
    /\ Turn("NormalizeInstructionLine")
    /\ LET r == NormalizeVisit(nil, ionames.names, ev, current_tag)
       IN nil' = r.st /\ Advance("NormalizeInstructionLine", r.res)
    /\ UNCHANGED <<ionames, trk, grc, skip, dh, gm, out>>

VisitGuid ==
    /\ Turn("GuidVisitor")
    /\ LET r == GuidVisit(gm, ev, current_tag)
       IN gm' = r.st /\ Advance("GuidVisitor", r.res)
    /\ UNCHANGED <<ionames, trk, grc, skip, dh, nil, out>>

VisitWriter ==
    /\ Turn("EventWriter")
    /\ LET r == EventWriterVisit(out, ev, current_tag)
       IN out' = r.st /\ Advance("EventWriter", r.res)
    /\ UNCHANGED <<ionames, trk, grc, skip, dh, nil, gm>>

(* after the visitor loop: the reset of current_tag, the break on Eof; a   *)
(* finished collection pass is followed by the transform pass              *)
PostEvent ==
    /\ Running /\ pc = "post"
    /\ IF orig.k = "Eof"
       THEN /\ phase' = IF phase = "collect" THEN "transform" ELSE "done"
            /\ pos' = 0
            /\ current_tag' = DefaultTag
            /\ calls' = <<>>
       ELSE /\ current_tag' = TagAfterVisit(orig, current_tag)
            /\ UNCHANGED <<phase, pos, calls>>
    /\ pc' = "read"
    /\ UNCHANGED <<doc, vi, ev, orig, ionames, trk, grc, skip, dh, nil, gm,
                   out, run, first_out>>

(* OutputVisitorNew with the GuidMap's counter of the earlier invocation *)
OutputVisitorNewCounterKept(prev) ==
    [ionames |-> IoNamesNew, trk |-> NameTrackerNew, grc |-> GrafcetTracerNew,
     skip |-> SkipTagNew(SkippedTag), dh |-> DiffHeaderNew,
     nil |-> NormalizeNew, gm |-> [GuidMapNew EXCEPT !.next = prev.gm.next]]

(* the visitors output_visitor constructs, whatever visitors `prev` an     *)
(* earlier invocation worked with                                          *)
OutputVisitorNew(prev) ==
    [ionames |-> IoNamesNew, trk |-> NameTrackerNew, grc |-> GrafcetTracerNew,
     skip |-> SkipTagNew(SkippedTag), dh |-> DiffHeaderNew,
     nil |-> NormalizeNew, gm |-> GuidMapNew]

(* main is run on the same file once more, after the first invocation has  *)
(* returned (Ok or Err) or panicked                                        *)
MainAgain ==
    /\ phase \in {"done", "failed"} /\ run = 1
    /\ run' = 2
    /\ first_out' = out
    /\ LET n == OutputVisitorNew([ionames |-> ionames, trk |-> trk,
                                  grc |-> grc, skip |-> skip, dh |-> dh,
                                  nil |-> nil, gm |-> gm])
       IN /\ ionames' = n.ionames
          /\ trk' = n.trk
          /\ grc' = n.grc
          /\ skip' = n.skip
          /\ dh' = n.dh
          /\ nil' = n.nil
          /\ gm' = n.gm
    /\ phase' = "collect"
    /\ pos' = 0
    /\ pc' = "read"
    /\ vi' = 1
    /\ ev' = Eof
    /\ orig' = Eof
    /\ current_tag' = DefaultTag
    /\ out' = <<>>
    /\ calls' = <<>>
    /\ doc' = doc

Next ==
    \/ ReadEvent
    \/ VisitIoNames
    \/ VisitNameTracker
    \/ VisitGrafcetTracer
    \/ VisitSkipTag
    \/ VisitDiffHeader
    \/ VisitNormalize
    \/ VisitGuid
    \/ VisitWriter
    \/ PostEvent
    \/ MainAgain

(* the state output_visitor starts from, for the input file d *)
InitWith(d) ==
    /\ doc = d
    /\ phase = "collect"
    /\ pos = 0
    /\ pc = "read"
    /\ vi = 1
    /\ ev = Eof
    /\ orig = Eof
    /\ current_tag = DefaultTag
    /\ ionames = IoNamesNew
    /\ trk = NameTrackerNew
    /\ grc = GrafcetTracerNew
    /\ skip = SkipTagNew(SkippedTag)
    /\ dh = DiffHeaderNew
    /\ nil = NormalizeNew
    /\ gm = GuidMapNew
    /\ out = <<>>
    /\ calls = <<>>
    /\ run = 1
    /\ first_out = <<>>

-----------------------------------------------------------------------------
(* Input files.  The reader (check_end_names) yields only End events that  *)
(* close the innermost open element; the files below close every element.  *)

(* longest file of the exhaustive family *)
MaxDocLen == 5

DriverTags == {"LadderElements", "InstructionLineEntity", "Id", "RungEntity"}
DriverTexts == {"a"}
DriverEmpty == {"Id"}

(* the events that may follow a prefix whose open elements are `open` *)
NextEvents(open) ==
    {Start(t) : t \in DriverTags} \cup {Text(t) : t \in DriverTexts}
    \cup {Empty(t) : t \in DriverEmpty}
    \cup (IF open = <<>> THEN {} ELSE {End(open[Len(open)])})

(* the prefixes of n events that at most MaxDocLen events can complete, *)
(* each with its open elements                                         *)
RECURSIVE Prefixes(_)
Prefixes(n) ==
    IF n = 0 THEN {[evs |-> <<>>, open |-> <<>>]}
    ELSE UNION {{[evs |-> Append(p.evs, e), open |-> OpenAfter(p.open, e)] :
                    e \in {f \in NextEvents(p.open) :
                              Len(OpenAfter(p.open, f)) <= MaxDocLen - n}} :
                 p \in Prefixes(n - 1)}

DriverDocs ==
    UNION {{p.evs : p \in {q \in Prefixes(n) : q.open = <<>>}} :
             n \in 0..MaxDocLen}

Init == \E d \in DriverDocs : InitWith(d)

(* Files of identifier elements: up to MaxGuidRefs Id, From and To         *)
(* elements in turn, each holding one of GuidTexts                         *)
MaxGuidRefs == 4
GuidTexts == {"a", "b", "c"}
GuidTags == <<"Id", "From", "To">>

GuidDocs ==
    UNION {{Concat([i \in 1..n |-> Leaf(GuidTags[((i - 1) % 3) + 1], t[i])]) :
              t \in [1..n -> GuidTexts]} : n \in 0..MaxGuidRefs}

InitGuid == \E d \in GuidDocs : InitWith(d)

(* Files of named containers: a chain of 1..MaxNest nested elements, one   *)
(* of them a RungEntity and the others Pou (unclassified) elements, each   *)
(* with or without a Name child before and after its nested element; and a *)
(* Pou holding a GrafcetTransition, with or without Name children          *)
MaxNest == 3

NameBefore(i) == "N" \o SubSeq("0123456789", i + 1, i + 1)
NameAfter(i) == "M" \o SubSeq("0123456789", i + 1, i + 1)

OptName(b, n) == IF b THEN Leaf("Name", n) ELSE <<>>

(* levels i..n of a chain; level r is the RungEntity, b[j] and a[j] tell   *)
(* whether level j has a Name before and after its nested element          *)
RECURSIVE Chain(_, _, _, _, _)
Chain(i, n, r, b, a) ==
    IF i > n THEN <<>>
    ELSE Elem(IF i = r THEN "RungEntity" ELSE "Pou",
              OptName(b[i], NameBefore(i)) \o Chain(i + 1, n, r, b, a)
              \o OptName(a[i], NameAfter(i)))

ChainDocs ==
    UNION {{Chain(1, n, x[1], x[2], x[3]) :
              x \in (1..n) \X [1..n -> BOOLEAN] \X [1..n -> BOOLEAN]} :
           n \in 1..MaxNest}

SelfLoop(n) == Leaf("Id", n) \o Leaf("From", n) \o Leaf("To", n)

TransitionDocs ==
    {Elem("Pou", OptName(x[1], "N1")
                 \o Elem("GrafcetTransition",
                         SelfLoop("t") \o OptName(x[2], "N2"))
                 \o OptName(x[3], "M1")
                 \o Elem("GrafcetTransition",
                         SelfLoop("u") \o OptName(x[4], "N3"))) :
       x \in BOOLEAN \X BOOLEAN \X BOOLEAN \X BOOLEAN}

NameDocs == ChainDocs \cup TransitionDocs

InitNames == \E d \in NameDocs : InitWith(d)

(* Files of control nodes: a node element with an Id (as a child, nested   *)
(* one level deeper, or none), 0..MaxFrom From and 0..MaxTo To children,   *)
(* alone or followed by a second node                                      *)
MaxFrom == 2
MaxTo == 3

Refs(tag, prefix, n) ==
    Concat([i \in 1..n |-> Leaf(tag, prefix \o SubSeq("0123456789", i + 1, i + 1))])

IdModes == {"child", "deep", "none"}

IdPart(mode, id) ==
    CASE mode = "child" -> Leaf("Id", id)
      [] mode = "deep" -> Elem("Wrap", Leaf("Id", id))
      [] OTHER -> <<>>

NodeElem(kind, mode, id, nf, nt) ==
    Elem(kind, IdPart(mode, id) \o Refs("From", "f", nf) \o Refs("To", "t", nt))

FirstNodes ==
    {NodeElem(x[1], "child", "n1", x[2], x[3]) :
       x \in NodeTags \X (0..MaxFrom) \X (0..MaxTo)}
    \cup {NodeElem("GrafcetOrFork", x[1], "n1", x[2], x[3]) :
            x \in {"deep", "none"} \X (0..MaxFrom) \X (0..MaxTo)}

SecondNodes ==
    {<<>>} \cup {NodeElem("GrafcetOrJunction", "child", "n2", n, n) : n \in 0..2}

FanDocs == {x[1] \o x[2] : x \in FirstNodes \X SecondNodes}

InitFan == \E d \in FanDocs : InitWith(d)

(* Files of a step a named Start, a step b named Stop and a transition t,  *)
(* in three orders, with or without an OR-fork f after a; the transition   *)
(* has the From and To children of FromLists and ToLists and may hold the  *)
(* Name T                                                                  *)
StepElem(id, name, ref) ==
    Elem("GrafcetNodeStep", Leaf("Id", id) \o ref \o Leaf("Name", name))

ForkElem ==
    Elem("GrafcetOrFork",
         Leaf("Id", "f") \o Leaf("From", "a") \o Leaf("To", "t")
         \o Leaf("To", "u"))

TransElem(froms, tos, named) ==
    Elem("GrafcetTransition",
         Leaf("Id", "t")
         \o Concat([i \in 1..Len(froms) |-> Leaf("From", froms[i])])
         \o Concat([i \in 1..Len(tos) |-> Leaf("To", tos[i])])
         \o OptName(named, "T"))

FromLists == {<<>>, <<"a">>, <<"f">>, <<"z">>, <<"a", "f">>}
ToLists == {<<"b">>, <<"b", "a">>, <<"t">>}
Orders == {"ATB", "ABT", "TAB"}

TransDoc(order, fork, froms, tos, named) ==
    LET A == StepElem("a", "Start", Leaf("To", IF fork THEN "f" ELSE "t"))
             \o (IF fork THEN ForkElem ELSE <<>>)
        B == StepElem("b", "Stop", Leaf("From", "t"))
        T == TransElem(froms, tos, named)
    IN CASE order = "ATB" -> A \o T \o B
         [] order = "ABT" -> A \o B \o T
         [] OTHER -> T \o A \o B

TransDocs ==
    {TransDoc(x[1], x[2], x[3], x[4], x[5]) :
       x \in Orders \X BOOLEAN \X FromLists \X ToLists \X BOOLEAN}

InitTrans == \E d \in TransDocs : InitWith(d)

(* Files with a fault.  The files of FaultBase: a transition whose From    *)
(* names no node, inside a named Pou; a sound file of two steps and a      *)
(* transition; a fork whose Id lies too deep; a step with two From and two *)
(* To.  Each is read as it is and with a fault put at one of its first     *)
(* MaxFaultAt events: a text is made longer than a Guid holds, a close tag *)
(* is given another name.                                                  *)
MaxFaultAt == 12

RECURSIVE Xs(_)
Xs(n) == IF n = 0 THEN "" ELSE "x" \o Xs(n - 1)

LongText == Xs(GuidCap + 1)

FaultBase ==
    {Elem("Pou", Leaf("Name", "P") \o TransElem(<<"a">>, <<"b">>, FALSE)),
     TransDoc("ATB", FALSE, <<"a">>, <<"b">>, TRUE),
     NodeElem("GrafcetOrFork", "deep", "n1", 1, 1),
     NodeElem("GrafcetNodeStep", "child", "n1", 2, 2)}

Fault(d, p) ==
    IF p > Len(d) THEN d
    ELSE IF d[p].k = "Text" THEN [d EXCEPT ![p].txt = LongText]
    ELSE IF d[p].k = "End" THEN [d EXCEPT ![p].name = "Broken"]
    ELSE d

FaultDocs == FaultBase \cup {Fault(d, p) : d \in FaultBase, p \in 1..MaxFaultAt}

InitFault == \E d \in FaultDocs : InitWith(d)

(* Files of a Pou holding up to MaxStray From, To or Id elements of its    *)
(* own, then a step or a transition with or without an Id and with at most *)
(* one From and one To, then possibly a junction                           *)
MaxStray == 1

StrayRefs ==
    {Refs(tag, "x", n) : tag \in {"From", "To", "Id"}, n \in 0..MaxStray}

StrayNodes ==
    {NodeElem(x[1], x[2], "n1", x[3], x[4]) :
       x \in {"GrafcetNodeStep", "GrafcetTransition"} \X {"child", "none"}
              \X (0..1) \X (0..1)}

StrayDocs ==
    {Elem("Pou", x[1] \o x[2] \o x[3]) :
       x \in StrayRefs \X StrayNodes
              \X {<<>>, NodeElem("GrafcetOrJunction", "child", "n2", 1, 1)}}

InitStray == \E d \in StrayDocs : InitWith(d)

(* Files of a Pou holding up to MaxNodes steps and forks, one beside or    *)
(* inside another, each possibly wrapped in a LadderElements element; a    *)
(* node element holds its child nodes, then its Id and one To.  The ids    *)
(* n1, n2, .. follow the order of the open tags.                           *)
MaxNodes == 2

NestKinds == {"GrafcetNodeStep", "GrafcetOrFork"}

NodeId(i) == "n" \o SubSeq("0123456789", i + 1, i + 1)

NodeWith(kind, id, children) ==
    Elem(kind, children \o Leaf("Id", id) \o Leaf("To", "t"))

RECURSIVE Forests(_, _)
RECURSIVE TreesOf(_, _)
(* the files of n node elements, the first of them with the id NodeId(i) *)
Forests(n, i) ==
    IF n = 0 THEN {<<>>}
    ELSE UNION {{t \o rest : t \in TreesOf(k, i),
                             rest \in Forests(n - k, i + k)} : k \in 1..n}

(* the files of one node element with k - 1 node elements inside it *)
TreesOf(k, i) ==
    UNION {{node, Elem("LadderElements", node)} :
             node \in {NodeWith(kind, NodeId(i), ch) :
                         kind \in NestKinds, ch \in Forests(k - 1, i + 1)}}

NestDocs == {Elem("Pou", f) : f \in UNION {Forests(n, 1) : n \in 0..MaxNodes}}

InitNest == \E d \in NestDocs : InitWith(d)

(* Files of a Pou named P holding up to MaxRungs RungEntity elements, one  *)
(* beside or inside another, each possibly wrapped in a LadderElements     *)
(* element; a RungEntity holds its child RungEntity elements, then its     *)
(* Name.  The names R1, R2, .. follow the order of the open tags.          *)
MaxRungs == 2

RungName(i) == "R" \o SubSeq("0123456789", i + 1, i + 1)

RungWith(name, children) ==
    Elem("RungEntity", children \o Leaf("Name", name))

RECURSIVE RungForests(_, _)
RECURSIVE RungTreesOf(_, _)
(* the files of n RungEntity elements, the first of them named RungName(i) *)
RungForests(n, i) ==
    IF n = 0 THEN {<<>>}
    ELSE UNION {{t \o rest : t \in RungTreesOf(k, i),
                             rest \in RungForests(n - k, i + k)} : k \in 1..n}

(* the files of one RungEntity with k - 1 RungEntity elements inside it *)
RungTreesOf(k, i) ==
    UNION {{rung, Elem("LadderElements", rung)} :
             rung \in {RungWith(RungName(i), ch) :
                         ch \in RungForests(k - 1, i + 1)}}

RungDocs ==
    {Elem("Pou", Leaf("Name", "P") \o f) :
       f \in UNION {RungForests(n, 1) : n \in 0..MaxRungs}}

InitRung == \E d \in RungDocs : InitWith(d)

(* Files of a Pou, named P or not, holding a step a and a step b, each     *)
(* with up to MaxStepNames Name elements (A1, A2, .. and B1, B2, ..)       *)
MaxStepNames == 2

StepWith(id, ref, names) ==
    Elem("GrafcetNodeStep", Leaf("Id", id) \o ref \o names)

StepDocs ==
    {Elem("Pou", OptName(x[1], "P")
                 \o StepWith("a", Leaf("To", "t"), Refs("Name", "A", x[2]))
                 \o StepWith("b", Leaf("From", "t"), Refs("Name", "B", x[3])))
       : x \in BOOLEAN \X (0..MaxStepNames) \X (0..MaxStepNames)}

InitStep == \E d \in StepDocs : InitWith(d)

(* Files of a walk through hubs: a step a named Start, then 1..MaxHubs     *)
(* OR-forks n1, n2, ... and a transition t with From n1 and To a.  Each    *)
(* fork has no Name of its own and one side of a single entry, which is    *)
(* the next fork; the single side is To (with two From), From (with two    *)
(* To) or To (with one From).  The single side of the last fork is LastRef:*)
(* the named step a, an id z of no node, or one of the forks themselves    *)
MaxHubs == 3

HubSides == {"to", "from", "both"}

HubElem(id, side, next) ==
    Elem("GrafcetOrFork",
         Leaf("Id", id)
         \o (CASE side = "to" ->
                    Leaf("From", "x") \o Leaf("From", "y") \o Leaf("To", next)
               [] side = "from" ->
                    Leaf("From", next) \o Leaf("To", "x") \o Leaf("To", "y")
               [] OTHER -> Leaf("From", "x") \o Leaf("To", next)))

RECURSIVE HubChain(_, _, _)
HubChain(sides, i, last) ==
    IF i > Len(sides) THEN <<>>
    ELSE HubElem(NodeId(i), sides[i],
                 IF i = Len(sides) THEN last ELSE NodeId(i + 1))
         \o HubChain(sides, i + 1, last)

LastRefs(k) == {"a", "z"} \cup {NodeId(i) : i \in 1..k}

HubDocs ==
    UNION {{StepElem("a", "Start", Leaf("To", "n1"))
            \o HubChain(x[1], 1, x[2])
            \o TransElem(<<"n1">>, <<"a">>, FALSE) :
              x \in [1..k -> HubSides] \X LastRefs(k)} : k \in 1..MaxHubs}

InitHub == \E d \in HubDocs : InitWith(d)

(* Files of one instruction container: an optional symbol declaration      *)
(* (Address, Symbol), then an InstructionLineEntity holding one text: any  *)
(* string of 1..MaxTextLen characters of TextAlphabet, or one of           *)
(* ExampleTexts; or holding two of PairTexts                               *)
MaxTextLen == 4
TextAlphabet == <<"L", "%", " ", "\n">>

RECURSIVE StringOf(_)
StringOf(cs) == IF cs = <<>> THEN "" ELSE Head(cs) \o StringOf(Tail(cs))

SmallTexts ==
    UNION {{StringOf([i \in 1..n |-> TextAlphabet[c[i]]]) :
              c \in [1..n -> 1..Len(TextAlphabet)]} : n \in 1..MaxTextLen}

ExampleTexts ==
    {"  LD   %I0.0\n\t ST %Q0.0 ", "LD %I0.0", "LD %I0.0 ST %I0.0\r\f"}
PairTexts == {"L", " ", "% L"}

SymbolDecl(address, symbol) ==
    Elem("IoEntry", Leaf("Address", address) \o Leaf("Symbol", symbol))

EntityOf(lines) ==
    Elem("InstructionLineEntity",
         Concat([i \in 1..Len(lines) |-> Leaf("InstructionLine", lines[i])]))

TextDocs ==
    {d \o EntityOf(<<t>>) : d \in {<<>>, SymbolDecl("%", "S")}, t \in SmallTexts}
    \cup {d \o EntityOf(<<t>>) :
            d \in {<<>>, SymbolDecl("%I0.0", "START_BTN")}, t \in ExampleTexts}
    \cup {d \o EntityOf(<<t, u>>) :
            d \in {<<>>, SymbolDecl("%", "S")}, t \in PairTexts, u \in PairTexts}

InitText == \E d \in TextDocs : InitWith(d)

Spec == Init /\ [][Next]_vars

SpecGuid == InitGuid /\ [][Next]_vars

SpecNames == InitNames /\ [][Next]_vars

SpecFan == InitFan /\ [][Next]_vars

SpecTrans == InitTrans /\ [][Next]_vars

SpecText == InitText /\ [][Next]_vars
SpecFault == InitFault /\ [][Next]_vars
SpecStray == InitStray /\ [][Next]_vars
SpecNest == InitNest /\ [][Next]_vars
SpecRung == InitRung /\ [][Next]_vars
SpecStep == InitStep /\ [][Next]_vars
SpecHub == InitHub /\ [][Next]_vars

-----------------------------------------------------------------------------
(* What the file alone determines                                          *)

(* the CurrentTag left behind once event q of file d has been processed *)
RECURSIVE TagLeft(_, _)
TagLeft(d, q) ==
    IF q = 0 \/ q > Len(d) THEN "None"
    ELSE IF d[q].k = "Start" THEN Classify(d[q].name)
    ELSE IF d[q].k = "End" THEN "None"
    ELSE TagLeft(d, q - 1)

(* the CurrentTag event p of file d is to be delivered with *)
TagFor(d, p) ==
    IF p >= 1 /\ p <= Len(d) /\ d[p].k \in {"Start", "End"}
    THEN Classify(d[p].name)
    ELSE TagLeft(d, IF p > Len(d) THEN Len(d) ELSE p - 1)

(* event p of d is the open or close tag of a `tag` element, or lies inside one *)
InSubtree(d, p, tag) ==
    /\ p >= 1 /\ p <= Len(d)
    /\ \/ d[p].k \in {"Start", "End"} /\ d[p].name = tag
       \/ \E i \in 1..Len(OpenAt(d, p - 1)) : OpenAt(d, p - 1)[i] = tag

ThePipelines == {CollectVisitors, TransformVisitors}

-----------------------------------------------------------------------------
(* C1: for every event read, the visitors are called in pipeline order,    *)
(* each at most once; the first receives the raw event, visitor i+1        *)
(* receives exactly the event visitor i returned in Continue, nobody is    *)
(* called after a NextNode, and after a NextNode (or the last visitor) the *)
(* driver reads the next event of the file, events being read in document  *)
(* order one at a time.                                                    *)

C1_CallsInOrder ==
    /\ \E P \in ThePipelines :
          /\ Running /\ pc \in {"visit", "post"} => P = Pipeline(phase)
          /\ Len(calls) <= Len(P)
          /\ \A i \in 1..Len(calls) : calls[i].i = i /\ calls[i].v = P[i]
          /\ Running /\ pc = "visit" => vi = Len(calls) + 1
          /\ Running /\ pc = "post" =>
                \/ calls[Len(calls)].res.kind = "NextNode"
                \/ calls[Len(calls)].res.kind = "Continue" /\ Len(calls) = Len(P)
    /\ Len(calls) >= 1 => calls[1].ev = ReadEventAt(doc, pos)
    /\ \A i \in 2..Len(calls) :
          /\ calls[i - 1].res.kind = "Continue"
          /\ calls[i].ev = calls[i - 1].res.ev
    /\ Running /\ pc \in {"visit", "post"} => orig = ReadEventAt(doc, pos)

C1_ReadsInOrder ==
    /\ Running /\ pc = "post" /\ orig.k # "Eof" =>
          pc' = "read" /\ pos' = pos /\ phase' = phase
    /\ Running /\ pc = "read" =>
          /\ pos' = pos + 1
          /\ pc' = "visit" /\ vi' = 1 /\ calls' = <<>>
          /\ ev' = ReadEventAt(doc, pos + 1)
    /\ Running /\ pc = "visit" => pos' = pos /\ orig' = orig
    /\ doc' = doc

(* C1: the visitors of every event are called in pipeline order, each on   *)
(* what its predecessor returned in Continue and none after a NextNode,    *)
(* and the events are read in document order, one at a time.               *)
C1_PipelineOrder == [](C1_CallsInOrder) /\ [][C1_ReadsInOrder]_vars

(* DiffHeader rewrote the event, NormalizeInstructionLine received the     *)
(* rewritten event and answered NextNode: the loop stopped there           *)
C1_Witness ==
    /\ phase = "transform" /\ pc = "post" /\ Len(calls) = 3
    /\ calls[2].res.ev # orig
    /\ calls[3].ev = calls[2].res.ev
    /\ calls[3].res.kind = "NextNode"
    /\ pos < Len(doc)

-----------------------------------------------------------------------------
(* C2: all visitors called for an event receive the same CurrentTag, the   *)
(* one the raw event determines: the classification of the tag for a raw   *)
(* Start or End (also when a visitor has rewritten the event), otherwise   *)
(* the tag left by the events before; the tag is None once the visitors of *)
(* an End have run, and not before.                                        *)

C2_SameTagFromRaw ==
    /\ \A i \in 1..Len(calls) : calls[i].tag = TagFor(doc, pos)
    /\ Running /\ pc \in {"visit", "post"} => current_tag = TagFor(doc, pos)
    /\ Running /\ pc = "read" => current_tag = TagLeft(doc, pos)

(* GuidVisitor is handed the Text that replaced a raw End, with the tag of *)
(* the raw End                                                             *)
C2_Witness ==
    /\ phase = "transform" /\ pc = "post" /\ Len(calls) = 5
    /\ orig.k = "End"
    /\ calls[4].ev.k = "Text"
    /\ calls[4].tag = "InstructionLineEntity"
    /\ calls[5].tag = "InstructionLineEntity"

-----------------------------------------------------------------------------
(* C8: in the transform pass no event of a LadderElements element (its     *)
(* open tag, what lies between, its close tag) gets past SkipTag, and      *)
(* every event outside such an element is passed on unchanged by SkipTag.  *)

C8_SubtreeRemoved ==
    phase = "transform" /\ pc \in {"visit", "post"} /\ Len(calls) >= 1 =>
        IF InSubtree(doc, pos, SkippedTag)
        THEN calls[1].res.kind = "NextNode"
        ELSE calls[1].res = Continue(orig)

-----------------------------------------------------------------------------
(* C3: within the transform pass the interner is injective and stable: the *)
(* n-th distinct identifier delivered receives n, a repeated identifier    *)
(* the integer of its first occurrence, and the text written for each      *)
(* identifier is that integer between "==" and "==".                       *)

(* the texts of the first p events of d that are delivered with the tag    *)
(* Id, From or To                                                          *)
RECURSIVE GuidTextsUpTo(_, _)
GuidTextsUpTo(d, p) ==
    IF p = 0 THEN <<>>
    ELSE IF d[p].k = "Text" /\ TagFor(d, p) \in {"From", "To", "Id"}
    THEN Append(GuidTextsUpTo(d, p - 1), d[p].txt)
    ELSE GuidTextsUpTo(d, p - 1)

FirstIndex(T, k) ==
    CHOOSE j \in 1..k : T[j] = T[k] /\ \A i \in 1..(j - 1) : T[i] # T[k]

(* how many distinct identifiers have been seen when T[k] is first seen *)
Rank(T, k) == Cardinality({T[j] : j \in 1..FirstIndex(T, k)})

(* the Text events written so far *)
WrittenTexts == SelectSeq(out, LAMBDA e : e.k = "Text")

(* the events of the pass GuidVisitor is through with *)
Handled ==
    IF phase = "done" THEN Len(doc)
    ELSE IF pos > Len(doc) THEN Len(doc) ELSE pos

(* C3: the n-th distinct identifier is written as n, a repeated identifier *)
(* as the integer of its first occurrence, and two identifiers get the     *)
(* same integer only when they are the same byte string.                   *)
C3_InternInjectiveStable ==
    (phase = "transform" /\ pc \in {"read", "post"}) \/ phase = "done" =>
        LET T == GuidTextsUpTo(doc, Handled)
        IN /\ DOMAIN gm.map = {T[k] : k \in 1..Len(T)}
           /\ \A k \in 1..Len(T) : gm.map[T[k]] = Rank(T, k)
           /\ \A a, b \in DOMAIN gm.map : a # b => gm.map[a] # gm.map[b]
           /\ gm.next = Cardinality(DOMAIN gm.map)
           /\ Len(WrittenTexts) = Len(T)
           /\ \A k \in 1..Len(T) : WrittenTexts[k].txt = GuidText(Rank(T, k))

(* a, b, a, c have been interned: 1, 2, 1 again, 3 *)
C3_Witness ==
    /\ phase = "done"
    /\ GuidTextsUpTo(doc, Len(doc)) = <<"a", "b", "a", "c">>
    /\ gm.map["a"] = 1 /\ gm.map["b"] = 2 /\ gm.map["c"] = 3
    /\ WrittenTexts[3].txt = "==1==" /\ WrittenTexts[4].txt = "==3=="

-----------------------------------------------------------------------------
(* C4: the depths of the name stack increase strictly from bottom to top   *)
(* (non-decreasing, no two entries with the same depth), and a Name text   *)
(* at depth d leaves the entries of depth < d, in order, with (d, name)    *)
(* pushed on top: every entry of depth >= d is gone.                       *)

C4_StackSorted ==
    \A i, j \in 1..Len(trk.names) :
        i < j => trk.names[i].depth < trk.names[j].depth

C4_NamePush ==
    phase = "collect" /\ pc = "visit" /\ vi = 2
    /\ ev.k = "Text" /\ current_tag = "Name" =>
        trk'.names =
            Append(SelectSeq(trk.names, LAMBDA n : n.depth < trk.depth),
                   [depth |-> trk.depth, name |-> ev.txt])

(* C4: the name stack is strictly sorted by depth at all times, and every  *)
(* Name text at depth d first pops the entries of depth >= d and then      *)
(* pushes (d, name).                                                       *)
C4_NameStack == [](C4_StackSorted) /\ [][C4_NamePush]_vars

(* how many of the first p events of d are Name texts *)
RECURSIVE NameTextCount(_, _)
NameTextCount(d, p) ==
    IF p = 0 THEN 0
    ELSE NameTextCount(d, p - 1)
         + (IF d[p].k = "Text" /\ TagFor(d, p) = "Name" THEN 1 ELSE 0)

(* a Name has just been pushed on a stack of two or more, two earlier      *)
(* names having been discarded                                             *)
C4_Witness ==
    /\ phase = "collect" /\ pc = "post"
    /\ orig.k = "Text" /\ current_tag = "Name"
    /\ Len(trk.names) >= 2
    /\ trk.names[Len(trk.names)].name = orig.txt
    /\ NameTextCount(doc, pos) >= Len(trk.names) + 2

-----------------------------------------------------------------------------
(* C5: the breadcrumb of the Rung Record pushed on the close of a          *)
(* RungEntity.                                                             *)

(* NameTracker has just handled the close of a RungEntity *)
RungJustClosed ==
    /\ phase \in {"collect", "failed"}
    /\ Len(calls) >= 2 /\ calls[2].v = "NameTracker"
    /\ orig.k = "End" /\ orig.name = "RungEntity"

NamesOf(ns) == [i \in 1..Len(ns) |-> ns[i].name]

AboveRoot(ns) == IF ns = <<>> THEN <<>> ELSE Tail(ns)

(* C5, as claimed: the breadcrumb of the record pushed on the close of a   *)
(* RungEntity is the join, by " > ", of all stacked names but the bottom   *)
(* one.                                                                    *)
C5_AllNamesJoined ==
    RungJustClosed =>
        trk.rungs[Len(trk.rungs)].name
            = JoinWith(NamesOf(AboveRoot(trk.names)), " > ")

(* C5, as amended: the breadcrumb joins, bottom to top with " > ", the     *)
(* stacked names above the bottom one up to the first that lies more than  *)
(* two levels below the RungEntity (whose depth is trk.depth + 1 once it   *)
(* is closed).                                                             *)
C5_NearNamesJoined ==
    RungJustClosed =>
        trk.rungs[Len(trk.rungs)].name
            = JoinWith(NamesOf(SelectSeq(AboveRoot(trk.names),
                                         LAMBDA n : n.depth <= trk.depth + 3)),
                       " > ")

(* a rung closed with three names stacked, the bottom one left out and the *)
(* two above joined                                                        *)
C5_Witness ==
    /\ RungJustClosed
    /\ Len(trk.names) = 3
    /\ trk.rungs[Len(trk.rungs)].name = "N2 > N3"

-----------------------------------------------------------------------------
(* C6: every node of the node table has exactly one From or exactly one To *)
(* reference; on the close of a node-classified element that passes the    *)
(* depth check, a working node with one side of size 1 (such as 1 incoming *)
(* and 3 outgoing) is recorded, and any other (such as 2 and 2, or 0 and   *)
(* 0) aborts the pass with nothing recorded.                               *)

OneSided(node) == Len(node.from) = 1 \/ Len(node.to) = 1

C6_TableOneSided == \A id \in DOMAIN grc.nodes : OneSided(grc.nodes[id])

C6_NodeClose ==
    phase = "collect" /\ pc = "visit" /\ vi = 3
    /\ ev.k = "End" /\ current_tag \in NodeTags
    /\ ~(grc.current_depth + 1 < grc.new_node.depth) =>
        LET node == grc.new_node.node
        IN IF OneSided(node)
           THEN /\ phase' = "collect"
                /\ node.id \in DOMAIN grc'.nodes
                /\ grc'.nodes[node.id] = node
                /\ grc'.sequence = Append(grc.sequence, node.id)
           ELSE /\ phase' = "failed"
                /\ grc'.nodes = grc.nodes
                /\ grc'.sequence = grc.sequence

(* C6: every recorded node has exactly one From or exactly one To, and a   *)
(* closing node is recorded when one of its sides has size 1 and aborts    *)
(* the pass otherwise.                                                     *)
C6_FanInvariant == [](C6_TableOneSided) /\ [][C6_NodeClose]_vars

(* the node with 1 incoming and 3 outgoing references is in the table, and *)
(* the pass has been aborted on the close of the node with 2 and 2         *)
C6_Witness ==
    /\ phase = "failed"
    /\ grc.sequence = <<"n1">>
    /\ Len(grc.nodes["n1"].from) = 1 /\ Len(grc.nodes["n1"].to) = 3
    /\ Len(grc.new_node.node.from) = 2 /\ Len(grc.new_node.node.to) = 2
    /\ orig = End("GrafcetOrJunction")

-----------------------------------------------------------------------------
(* C7: on the open of a GrafcetTransition in the transform pass, with the  *)
(* current node nodes[sequence[grc_cnt]]: if its from and its to have one  *)
(* element each, DiffHeader adds ctx = name(from) "->[" name(id) "]->"     *)
(* name(to), name(x) being x's entry of the Name Resolution Table or else  *)
(* the name of get_unique_link(x) (the run aborts when no name is found);  *)
(* otherwise the run aborts.                                               *)

(* name(x) as the claim defines it, <<>> when k links lead to no name *)
RECURSIVE NameOfId(_, _)
NameOfId(x, k) ==
    IF x \in DOMAIN trk.ids THEN <<trk.ids[x]>>
    ELSE IF k = 0 \/ x \notin DOMAIN grc.nodes THEN <<>>
    ELSE LET n == grc.nodes[x]
         IN IF Len(n.to) = 1 THEN NameOfId(n.to[1], k - 1)
            ELSE IF Len(n.from) = 1 THEN NameOfId(n.from[1], k - 1)
            ELSE <<>>

TransitionJustOpened ==
    /\ phase \in {"transform", "failed", "diverged"}
    /\ Len(calls) >= 2 /\ calls[2].v = "DiffHeader"
    /\ orig.k = "Start" /\ orig.name = "GrafcetTransition"

(* C7: the open tag of a GrafcetTransition whose node has one from and one *)
(* to gets ctx = name(from) "->[" name(id) "]->" name(to), and the run      *)
(* aborts in every other case.                                             *)
C7_TransitionCtx ==
    TransitionJustOpened =>
        /\ dh.grc_cnt \in 1..Len(grc.sequence)
        /\ LET node == grc.nodes[grc.sequence[dh.grc_cnt]]
               k == Cardinality(DOMAIN grc.nodes)
           IN IF Len(node.from) = 1 /\ Len(node.to) = 1
              THEN LET f == NameOfId(node.from[1], k)
                       i == NameOfId(node.id, k)
                       t == NameOfId(node.to[1], k)
                   IN IF f # <<>> /\ i # <<>> /\ t # <<>>
                      THEN calls[2].res =
                             Continue([orig EXCEPT !.attrs =
                                 <<<<"ctx", f[1] \o "->[" \o i[1] \o "]->"
                                            \o t[1]>>>>])
                      ELSE calls[2].res.kind \in {"Panic", "Diverge"}
              ELSE calls[2].res.kind = "Panic" /\ phase = "failed"

(* the transition between Start and Stop, entered from the fork f whose    *)
(* name is that of its unique link a, has been written with its ctx        *)
C7_Witness ==
    /\ phase = "done"
    /\ "f" \in DOMAIN grc.nodes /\ "f" \notin DOMAIN trk.ids
    /\ grc.nodes["t"].from = <<"f">>
    /\ \E j \in 1..Len(out) :
          /\ out[j].k = "Start" /\ out[j].name = "GrafcetTransition"
          /\ out[j].attrs = <<<<"ctx", "Start->[T]->Stop">>>>

-----------------------------------------------------------------------------
(* The words of a text, and what an instruction container is to yield      *)

Whitespace == {" ", "\t", "\n", "\f", "\r"}

IsWsAt(t, i) == SubSeq(t, i, i) \in Whitespace

(* where the maximal runs of non-whitespace characters of t start *)
WordStarts(t) ==
    {i \in 1..Len(t) : ~IsWsAt(t, i) /\ (i = 1 \/ IsWsAt(t, i - 1))}

WordEnd(t, i) ==
    CHOOSE j \in i..Len(t) :
        /\ \A k \in i..j : ~IsWsAt(t, k)
        /\ j = Len(t) \/ IsWsAt(t, j + 1)

NthWordStart(t, n) ==
    CHOOSE i \in WordStarts(t) :
        Cardinality({k \in WordStarts(t) : k < i}) = n - 1

WordsOf(t) ==
    [n \in 1..Cardinality(WordStarts(t)) |->
        SubSeq(t, NthWordStart(t, n), WordEnd(t, NthWordStart(t, n)))]

(* the raw texts inside the InstructionLineEntity elements of the file *)
RECURSIVE EntityTextsUpTo(_, _)
EntityTextsUpTo(d, p) ==
    IF p = 0 THEN <<>>
    ELSE IF d[p].k = "Text" /\ InSubtree(d, p, "InstructionLineEntity")
    THEN Append(EntityTextsUpTo(d, p - 1), d[p].txt)
    ELSE EntityTextsUpTo(d, p - 1)

EntityTexts == EntityTextsUpTo(doc, Len(doc))

HasSymbol(w) == w \in DOMAIN ionames.names

NoWordHasSymbol ==
    \A i \in 1..Len(EntityTexts) :
        \A n \in 1..Len(WordsOf(EntityTexts[i])) :
            ~HasSymbol(WordsOf(EntityTexts[i])[n])

SomeWordHasSymbol == ~NoWordHasSymbol

(* the pieces that are not empty, joined by a tab: what the container's    *)
(* close is replaced with                                                  *)
TabJoined(pieces) == JoinWith(SelectSeq(pieces, LAMBDA x : x # ""), "\t")

(* the file has been transformed; the last event written stands for the    *)
(* container                                                               *)
ContainerWritten == phase = "done" /\ out # <<>>

-----------------------------------------------------------------------------
(* C9: for a text inside an instruction container none of whose words has  *)
(* a symbol, the text written is its maximal non-whitespace words joined   *)
(* by one space each, without leading or trailing whitespace (empty for a  *)
(* text of whitespace only); the texts of several text events of one       *)
(* container, so normalized, are joined by a tab.                          *)

SpaceJoined(t) == JoinWith(WordsOf(t), " ")

C9_WordsSpaceJoined ==
    ContainerWritten /\ NoWordHasSymbol =>
        out[Len(out)] =
            Text(TabJoined([i \in 1..Len(EntityTexts) |->
                              SpaceJoined(EntityTexts[i])]))

(* the example with runs of spaces, a newline and a tab *)
C9_Witness ==
    /\ ContainerWritten /\ NoWordHasSymbol
    /\ EntityTexts = <<"  LD   %I0.0\n\t ST %Q0.0 ">>
    /\ out[Len(out)] = Text("LD %I0.0 ST %Q0.0")

-----------------------------------------------------------------------------
(* C10: a word with a recorded symbol is followed by the symbol in square  *)
(* brackets; words without a symbol get no bracket.                        *)

(* as claimed: one space between the word and the bracket *)
RECURSIVE OneSpaceAnnotated(_, _)
OneSpaceAnnotated(ws, acc) ==
    IF ws = <<>> THEN acc
    ELSE LET w == Head(ws)
             line == (IF acc = "" THEN "" ELSE acc \o " ") \o w
         IN OneSpaceAnnotated(Tail(ws),
                IF HasSymbol(w)
                THEN line \o " [" \o ionames.names[w] \o "]"
                ELSE line)

(* C10, as claimed: every word with a recorded symbol is followed by one   *)
(* space and the symbol in square brackets; other words get no bracket.    *)
C10_OneSpaceBeforeSymbol ==
    ContainerWritten /\ SomeWordHasSymbol =>
        out[Len(out)] =
            Text(TabJoined([i \in 1..Len(EntityTexts) |->
                              OneSpaceAnnotated(WordsOf(EntityTexts[i]), "")]))

(* as amended: the bracket starts in column 15 of the normalized text of   *)
(* its text event, or after one space when the word ends beyond column 13  *)
RECURSIVE Spaces(_)
Spaces(n) == IF n <= 0 THEN "" ELSE " " \o Spaces(n - 1)

RECURSIVE ColumnAnnotated(_, _)
ColumnAnnotated(ws, acc) ==
    IF ws = <<>> THEN acc
    ELSE LET w == Head(ws)
             line == (IF acc = "" THEN "" ELSE acc \o " ") \o w
             gap == IF Len(line) < 13 THEN 14 - Len(line) ELSE 1
         IN ColumnAnnotated(Tail(ws),
                IF HasSymbol(w)
                THEN line \o Spaces(gap) \o "[" \o ionames.names[w] \o "]"
                ELSE line)

(* C10, as amended: every word with a recorded symbol is followed by the   *)
(* spaces that pad the text normalized so far to 14 bytes (one space when  *)
(* it is longer than 12) and the symbol in square brackets; other words    *)
(* get no bracket.                                                         *)
C10_SymbolInColumn ==
    ContainerWritten /\ SomeWordHasSymbol =>
        out[Len(out)] =
            Text(TabJoined([i \in 1..Len(EntityTexts) |->
                              ColumnAnnotated(WordsOf(EntityTexts[i]), "")]))

(* %I0.0 has the symbol START_BTN: the first bracket is padded to column   *)
(* 15, the second follows its word after one space                         *)
C10_Witness ==
    /\ ContainerWritten
    /\ ionames.names = [x \in {"%I0.0"} |-> "START_BTN"]
    /\ EntityTexts = <<"LD %I0.0 ST %I0.0\r\f">>
    /\ out[Len(out)] = Text("LD %I0.0      [START_BTN] ST %I0.0 [START_BTN]")

-----------------------------------------------------------------------------
(* the elements left open by the written events evs, on top of `open`;     *)
(* <<"!">> once a written close tag did not match the element open then    *)
RECURSIVE WrittenOpen(_, _)
WrittenOpen(evs, open) ==
    IF evs = <<>> THEN open
    ELSE LET e == Head(evs)
         IN CASE e.k = "Start" ->
                   WrittenOpen(Tail(evs), Append(open, e.name))
              [] e.k = "End" ->
                   IF open # <<>> /\ open[Len(open)] = e.name
                   THEN WrittenOpen(Tail(evs), SubSeq(open, 1, Len(open) - 1))
                   ELSE <<"!">>
              [] OTHER -> WrittenOpen(Tail(evs), open)

(* C11: the events written by the transform pass are well-nested: every    *)
(* close tag written matches the most recent unmatched open tag written,   *)
(* and no written open tag is left unclosed at the end of the stream.      *)
C11_OutputWellNested ==
    /\ WrittenOpen(out, <<>>) # <<"!">>
    /\ phase = "done" => WrittenOpen(out, <<>>) = <<>>

-----------------------------------------------------------------------------
(* s is a prefix of t *)
IsPrefix(s, t) == Len(s) <= Len(t) /\ s = SubSeq(t, 1, Len(s))

-----------------------------------------------------------------------------
(* an error or a panic is the result of no call but the last, and ends the *)
(* invocation                                                              *)
C13_NoCallAfterError ==
    \A i \in 1..Len(calls) :
        calls[i].res.kind \in {"Err", "Panic"} =>
            i = Len(calls) /\ phase = "failed"

C13_Step ==
    /\ phase = "failed" /\ run' = run => UNCHANGED vars
    /\ phase # "transform" /\ phase' = "transform" =>
           /\ phase = "collect" /\ pc = "post"
           /\ orig.k = "Eof" /\ pos = Len(doc) + 1
    /\ phase = "collect" => out' = <<>>

(* C13: a fatal condition ends the invocation: after an error or a failed  *)
(* assertion no visitor is called and no event is read or written; the     *)
(* transform pass starts only when the collection pass has handled the     *)
(* whole file, and nothing is written before that, so that a fatal         *)
(* condition of the collection pass leaves the output empty.               *)
C13_FatalAborts ==
    /\ [](C13_NoCallAfterError /\ (phase = "collect" => out = <<>>))
    /\ [][C13_Step]_vars

(* GrafcetTracer has returned an error for a From or To text of 37 bytes   *)
(* in the collection pass: the invocation has failed with nothing written  *)
C13_Witness ==
    /\ phase = "failed" /\ run = 1
    /\ calls # <<>>
    /\ calls[Len(calls)].v = "GrafcetTracer"
    /\ calls[Len(calls)].res = Err
    /\ calls[Len(calls)].ev = Text(LongText)
    /\ out = <<>>

-----------------------------------------------------------------------------
(* the classification of the innermost element open before event p of d,   *)
(* None when no element is open                                            *)
EnclosingTag(d, p) ==
    LET open == OpenAt(d, p - 1)
    IN IF open = <<>> THEN "None" ELSE Classify(open[Len(open)])

(* the last open or close tag before event p of d, 0 when there is none *)
RECURSIVE LastTagBefore(_, _)
LastTagBefore(d, p) ==
    IF p <= 1 THEN 0
    ELSE IF d[p - 1].k \in {"Start", "End"} THEN p - 1
    ELSE LastTagBefore(d, p - 1)

(* the visitors are being called, or have been called, for a Text event *)
TextDelivered == Running /\ orig.k = "Text" /\ calls # <<>>

(* C14, as claimed: every visitor called for a Text event receives the     *)
(* classification of the nearest enclosing element open at that point of   *)
(* the file, also when the text follows the close of a child element.      *)
C14_TextTagEnclosing ==
    TextDelivered =>
        \A i \in 1..Len(calls) : calls[i].tag = EnclosingTag(doc, pos)

(* C14, as amended: every visitor called for a Text event receives the     *)
(* classification of the nearest enclosing open element when the last tag  *)
(* read before the text is an open tag (that of the enclosing element),    *)
(* and None when it is a close tag or when no tag was read before.         *)
C14_TextTagSinceOpen ==
    TextDelivered =>
        LET q == LastTagBefore(doc, pos)
            tag == IF q > 0 /\ doc[q].k = "Start"
                   THEN EnclosingTag(doc, pos)
                   ELSE "None"
        IN \A i \in 1..Len(calls) : calls[i].tag = tag

(* a text that follows the close of a child inside its RungEntity parent   *)
(* is delivered with None                                                  *)
C14_Witness ==
    /\ TextDelivered
    /\ pos >= 2 /\ doc[pos - 1].k = "End"
    /\ EnclosingTag(doc, pos) = "RungEntity"
    /\ calls[1].tag = "None"

-----------------------------------------------------------------------------
(* the open tag of the element that event p of d, a close tag, closes *)
RECURSIVE OpenTagOf(_, _, _)
OpenTagOf(d, p, s) ==
    IF s = 0 THEN 0
    ELSE IF d[s].k = "Start" /\ Len(OpenAt(d, s - 1)) = Len(OpenAt(d, p))
    THEN s
    ELSE OpenTagOf(d, p, s - 1)

(* the texts delivered with `tag` among the events s+1 .. p-1 of d *)
RECURSIVE TextsBetween(_, _, _, _)
TextsBetween(d, s, p, tag) ==
    IF s + 1 >= p THEN <<>>
    ELSE LET rest == TextsBetween(d, s + 1, p, tag)
         IN IF d[s + 1].k = "Text" /\ TagFor(d, s + 1) = tag
            THEN <<d[s + 1].txt>> \o rest
            ELSE rest

(* GrafcetTracer has just recorded a node on the close of a                *)
(* node-classified element                                                 *)
NodeJustRecorded ==
    /\ phase = "collect" /\ Len(calls) >= 3
    /\ calls[3].res.kind = "Continue"
    /\ orig.k = "End" /\ IsNodeTag(calls[3].tag)

(* C15: the node recorded on the close of a node-classified element has as *)
(* from, to and id the From texts, the To texts and the Id text of that    *)
(* element's own subtree, in document order, and nothing from outside it.  *)
C15_NodeFromOwnSubtree ==
    NodeJustRecorded =>
        LET s == OpenTagOf(doc, pos, pos - 1)
            ids == TextsBetween(doc, s, pos, "Id")
            node == grc.nodes[grc.sequence[Len(grc.sequence)]]
        IN /\ node.from = TextsBetween(doc, s, pos, "From")
           /\ node.to = TextsBetween(doc, s, pos, "To")
           /\ Len(ids) = 1 => node.id = ids[1]
           /\ ids = <<>> => node.id = ""

-----------------------------------------------------------------------------
(* GrafcetTracer is about to handle the close of a node-classified element *)
(* in the collection pass                                                  *)
NodeClosing ==
    /\ phase = "collect" /\ pc = "visit" /\ vi = 3
    /\ ev.k = "End" /\ IsNodeTag(current_tag)

(* the Id text of the working node was seen in an Id element that is a     *)
(* child of the element being closed                                       *)
IdInImmediateScope == grc.new_node.depth = grc.current_depth + 1

C16_NodeCloseStep ==
    NodeClosing /\ grc.new_node.depth > 0 /\ ~IdInImmediateScope =>
        /\ phase' = "failed"
        /\ grc'.nodes = grc.nodes
        /\ grc'.sequence = grc.sequence

(* C16: on the close of a node-classified element whose working node got   *)
(* its Id at a depth other than that of the element's children, the pass   *)
(* aborts and no node is recorded: a node is recorded only when the depths *)
(* match.                                                                  *)
C16_DepthMismatchAborts == [][C16_NodeCloseStep]_vars

-----------------------------------------------------------------------------
(* the close tag of the element that event s of d, an open tag, opens *)
RECURSIVE CloseTagOf(_, _, _)
CloseTagOf(d, s, p) ==
    IF p > Len(d) THEN 0
    ELSE IF d[p].k = "End" /\ Len(OpenAt(d, p)) = Len(OpenAt(d, s - 1))
    THEN p
    ELSE CloseTagOf(d, s, p + 1)

(* the number of close tags of node-classified elements among the first p  *)
(* events of d: the place in the Document Sequence of the node recorded on *)
(* the close tag p                                                         *)
RECURSIVE NodeCloses(_, _)
NodeCloses(d, p) ==
    IF p = 0 THEN 0
    ELSE NodeCloses(d, p - 1)
         + (IF d[p].k = "End" /\ IsNodeTag(Classify(d[p].name)) THEN 1 ELSE 0)

(* DiffHeader has handled the open tag of a node-classified element *)
NodeOpenHandled ==
    /\ phase = "transform" /\ Len(calls) >= 2
    /\ calls[2].res.kind = "Continue"
    /\ orig.k = "Start" /\ IsNodeTag(calls[2].tag)

(* C17: when DiffHeader handles the open tag of a node-classified element, *)
(* get_current_node returns the node the collection pass recorded on the   *)
(* close tag of that same element.                                         *)
C17_CurrentNodeIsOwnNode ==
    NodeOpenHandled =>
        LET k == NodeCloses(doc, CloseTagOf(doc, pos, pos + 1))
        IN GetCurrentNode(grc, dh.grc_cnt) = <<grc.nodes[grc.sequence[k]]>>

-----------------------------------------------------------------------------
(* the number of close tags of RungEntity elements among the first p       *)
(* events of d: the place among the Rung Records of the record pushed on   *)
(* the close tag p                                                         *)
RECURSIVE RungCloses(_, _)
RungCloses(d, p) ==
    IF p = 0 THEN 0
    ELSE RungCloses(d, p - 1)
         + (IF d[p].k = "End" /\ Classify(d[p].name) = "RungEntity"
            THEN 1 ELSE 0)

(* DiffHeader has handled the open tag of a RungEntity *)
RungOpenHandled ==
    /\ phase = "transform" /\ Len(calls) >= 2
    /\ calls[2].v = "DiffHeader" /\ calls[2].res.kind = "Continue"
    /\ orig.k = "Start" /\ calls[2].tag = "RungEntity"

(* C18: the k-th RungEntity open tag DiffHeader sees gets as ctx the       *)
(* breadcrumb of the k-th Rung Record, the record the collection pass      *)
(* pushed on the close tag of that same element, and the index of the      *)
(* record stays within the records collected.                              *)
C18_RungGetsOwnRecord ==
    /\ phase \in {"transform", "done"} => dh.current_rung <= Len(trk.rungs)
    /\ RungOpenHandled =>
           LET k == RungCloses(doc, CloseTagOf(doc, pos, pos + 1))
           IN /\ calls[2].res.ev
                   = AddCtxAttr(orig, trk.rungs[dh.current_rung].name)
              /\ calls[2].res.ev = AddCtxAttr(orig, trk.rungs[k].name)

-----------------------------------------------------------------------------
(* NameTracker has handled the close tag of a GrafcetNodeStep in the       *)
(* collection pass                                                         *)
StepJustClosed ==
    /\ phase = "collect" /\ Len(calls) >= 2
    /\ calls[2].v = "NameTracker"
    /\ orig.k = "End" /\ calls[2].tag = "GrafcetNodeStep"

(* C19: on the close of a GrafcetNodeStep the name recorded for the step's *)
(* id is the first Name text of the step's own subtree, and the empty      *)
(* string when the subtree holds no Name.                                  *)
C19_StepNameFromOwnSubtree ==
    StepJustClosed =>
        LET s == OpenTagOf(doc, pos, pos - 1)
            names == TextsBetween(doc, s, pos, "Name")
            id == TextsBetween(doc, s, pos, "Id")[1]
        IN /\ id \in DOMAIN trk.ids
           /\ trk.ids[id] = IF names = <<>> THEN "" ELSE names[1]

-----------------------------------------------------------------------------
(* NameTracker is about to handle the close tag of a GrafcetTransition in  *)
(* the collection pass; trk.depth is the depth of the transition element   *)
TransitionClosing ==
    /\ phase = "collect" /\ pc = "visit" /\ vi = 2
    /\ ev.k = "End" /\ current_tag = "GrafcetTransition"

C20_TransitionCloseStep ==
    TransitionClosing =>
        /\ trk.new_id \in DOMAIN trk'.ids
        /\ trk'.ids[trk.new_id] =
               IF trk.names = <<>> THEN ""
               ELSE trk.names[Len(trk.names)].name
        /\ \A i \in 1..Len(trk'.names) : trk'.names[i].depth < trk.depth

(* C20: on the close of a GrafcetTransition the name recorded for its id   *)
(* is the name on top of the name stack at that moment, the empty string   *)
(* for an empty stack, and afterwards no entry of the stack has a depth    *)
(* greater than or equal to the depth of the transition element.           *)
C20_TransitionName == [][C20_TransitionCloseStep]_vars

(* the transition t, closed under the names N1 (of the Pou) and N2 (its    *)
(* own), has got the name N2, and both names have left the stack           *)
C20_Witness ==
    /\ phase = "collect" /\ Len(calls) >= 2
    /\ calls[2].v = "NameTracker"
    /\ orig = End("GrafcetTransition")
    /\ NameTextCount(doc, pos) = 2
    /\ trk.new_id = "t" /\ trk.ids["t"] = "N2"
    /\ trk.names = <<>>

-----------------------------------------------------------------------------
(* C21                                                                     *)

(* the link get_unique_link gives for the node n is the only entry of a    *)
(* side of n that has exactly one entry, and of the other side when one    *)
(* side has more than one entry                                            *)
LinkFromSingleSide(n, link) ==
    /\ link # <<>>
    /\ \/ Len(n.to) = 1 /\ link[1] = n.to[1]
       \/ Len(n.from) = 1 /\ link[1] = n.from[1]
    /\ Len(n.to) > 1 => Len(n.from) = 1 /\ link[1] = n.from[1]
    /\ Len(n.from) > 1 => Len(n.to) = 1 /\ link[1] = n.to[1]

(* C21: for every node of the node table get_unique_link returns, without  *)
(* a panic, the single entry of a side (to or from) that has exactly one   *)
(* entry; for a node with more than one entry on one side it is the only   *)
(* entry of the other side, and it is never taken from a side with more    *)
(* than one entry.                                                         *)
C21_UniqueLinkFromSingleSide ==
    \A id \in DOMAIN grc.nodes :
        LinkFromSingleSide(grc.nodes[id], GetUniqueLink(grc, id))

(* the table holds a node with one From and several To, and the link of    *)
(* that node is its From entry                                             *)
C21_Witness ==
    \E id \in DOMAIN grc.nodes :
        /\ Len(grc.nodes[id].from) = 1 /\ Len(grc.nodes[id].to) > 1
        /\ GetUniqueLink(grc, id) = <<grc.nodes[id].from[1]>>

-----------------------------------------------------------------------------
(* C22                                                                     *)

(* C22: resolving a display name (DiffHeader::id following                 *)
(* get_unique_link through ids that have no name) always terminates: no    *)
(* run enters a resolution that never returns, each ends with a name or    *)
(* with a fatal error.                                                     *)
C22_IdResolutionTerminates == phase # "diverged"

-----------------------------------------------------------------------------
(* C23                                                                     *)

(* DiffHeader has been called on the open tag of a GrafcetTransition, the  *)
(* one place where get_current_node is called; dh.grc_cnt is the position  *)
(* counter the call was made with, whatever became of the call             *)
TransitionOpenHandled ==
    /\ phase \in {"transform", "failed", "diverged"}
    /\ Len(calls) >= 2
    /\ calls[2].v = "DiffHeader"
    /\ calls[2].ev.k = "Start" /\ calls[2].tag = "GrafcetTransition"

(* the Document Sequence and GrafcetTracer's counter agree, between two    *)
(* events with the number of node-classified close tags read, and every id *)
(* of the sequence is a key of the node table                              *)
SequenceInStep ==
    /\ Len(grc.sequence) = grc.counter
    /\ pc = "read" /\ phase = "collect" => grc.counter = NodeCloses(doc, pos)
    /\ \A i \in 1..Len(grc.sequence) : grc.sequence[i] \in DOMAIN grc.nodes

(* C23: after any prefix of the collection pass the length of the Document *)
(* Sequence equals GrafcetTracer's counter, the number of node-classified  *)
(* elements closed so far, and every id of the sequence is a key of the    *)
(* node table; and every get_current_node call of the transform pass is    *)
(* made with a position counter k, 1 <= k <= length of the sequence, and   *)
(* finds a node.                                                           *)
C23_SequenceLengthIsCounter ==
    /\ phase \in {"collect", "transform", "done"} => SequenceInStep
    /\ TransitionOpenHandled =>
          /\ dh.grc_cnt \in 1..Len(grc.sequence)
          /\ GetCurrentNode(grc, dh.grc_cnt) # <<>>

(* the transform pass has called get_current_node for a transition that is *)
(* not the first node of the file, with a table of at least three nodes    *)
C23_Witness ==
    /\ TransitionOpenHandled
    /\ dh.grc_cnt >= 2 /\ Len(grc.sequence) >= 3
    /\ grc.counter = 3
    /\ GetCurrentNode(grc, dh.grc_cnt) # <<>>

====
